---- MODULE Spec2Model ----
(***************************************************************************)
(* Model of the Antikythera repository:                                    *)
(*   export_svg.py   exports every ON/OFF combination of six Inkscape      *)
(*                   layers of an SVG to a PNG named by its bitmask;       *)
(*   Anticythere.py  polls six buttons and shows the precomputed image     *)
(*                   addressed by the switch vector.                       *)
(* Python strings are sequences of one-character strings, so that split,   *)
(* strip, startswith, join and format are computed and not assumed.        *)
(***************************************************************************)
EXTENDS Integers, Sequences, FiniteSets, TLC

VARIABLES
    \* ---- export_svg.main ----
    args,           \* parsed command line: input_svg, layers, prefix, keep_style
    fs,             \* file system, input side: path -> document stored in the file
    dir_exists,     \* whether args.output_dir exists
    pc,             \* position of main(): "start", "validate", "loop", "done", "error"
    err,            \* which SystemExit ended the run ("" when none)
    base_tree,      \* the canonical tree parsed at line 73 (<<>> before it is parsed)
    chosen_labels,  \* the labels that define the bit order
    k,              \* number of combinations the loop has consumed
    fresh,          \* the document as load_svg returned it in the last iteration
    tree,           \* the document handed to the renderer in the last iteration
    visited,        \* the combinations the loop has visited, in order
    written,        \* the names of the files written to output_dir, in order
    \* ---- set_layer_visibility on its own ----
    v_elem0,        \* the element before the call
    v_elem,         \* the element after the calls made so far
    v_visible,      \* the argument of the last call
    v_keep,         \* keep_style
    v_calls,        \* number of calls made
    \* ---- Anticythere.py display loop ----
    SWITCHS,        \* the switch vector being built in this pass
    b_idx,          \* index of the next button to read (0-based)
    l_pc,           \* "idle", "poll", "shown", "stopped"
    num,            \* the index computed by switch_to_num
    shown           \* the file the displayed image was loaded from

mainVars == <<args, fs, dir_exists, pc, err, base_tree, chosen_labels, k,
              fresh, tree, visited, written>>
visVars  == <<v_elem0, v_elem, v_visible, v_keep, v_calls>>
loopVars == <<SWITCHS, b_idx, l_pc, num, shown>>
vars     == <<mainVars, visVars, loopVars>>

----------------------------------------------------------------------------
(* Bounds of the model.                                                    *)

\* most layers a source document holds (the selection needs 6)
MaxLayers == 7
\* most calls of set_layer_visibility on one element
MaxCalls == 2
\* most declarations in an inline style given to set_layer_visibility
MaxDecls == 3

(* Program constants.                                                      *)

\* n = 6, the number of layers combined
n == 6
\* range(64): the number of images the display loop loads
NumImages == 64

----------------------------------------------------------------------------
(* Python string operations on sequences of characters.                    *)

Whitespace == {" ", "\t", "\n"}

\* str.strip()
strip(s) ==
    LET keep == {i \in 1..Len(s) : s[i] \notin Whitespace}
    IN  IF keep = {} THEN <<>>
        ELSE LET lo == CHOOSE i \in keep : \A j \in keep : i <= j
                 hi == CHOOSE i \in keep : \A j \in keep : i >= j
             IN  SubSeq(s, lo, hi)

\* str.startswith(p)
startswith(s, p) == Len(s) >= Len(p) /\ SubSeq(s, 1, Len(p)) = p

\* str.split(sep) for a one-character separator: "".split(";") is [""]
RECURSIVE split(_, _)
split(s, sep) ==
    IF \A i \in 1..Len(s) : s[i] # sep
    THEN <<s>>
    ELSE LET p == CHOOSE i \in 1..Len(s) :
                      s[i] = sep /\ \A j \in 1..(i-1) : s[j] # sep
         IN  <<SubSeq(s, 1, p-1)>> \o split(SubSeq(s, p+1, Len(s)), sep)

\* sep.join(parts)
RECURSIVE join(_, _)
join(parts, sep) ==
    IF parts = <<>> THEN <<>>
    ELSE IF Len(parts) = 1 THEN parts[1]
    ELSE parts[1] \o <<sep>> \o join(Tail(parts), sep)

\* str(d) for a one-digit integer
Digits == <<"0", "1", "2", "3", "4", "5", "6", "7", "8", "9">>
str(d) == <<Digits[d + 1]>>

\* "".join of a sequence of strings
RECURSIVE concat(_)
concat(parts) == IF parts = <<>> THEN <<>> ELSE parts[1] \o concat(Tail(parts))

S_display_colon == <<"d","i","s","p","l","a","y",":">>
S_display == <<"d","i","s","p","l","a","y">>
S_inline  == <<"i","n","l","i","n","e">>
S_none    == <<"n","o","n","e">>
S_layer   == <<"l","a","y","e","r">>
S_Layer   == <<"L","a","y","e","r">>
S_png     == <<".","p","n","g">>
S_fill    == <<"f","i","l","l",":","r","e","d">>

----------------------------------------------------------------------------
(* Elements and documents.  An element is [tag, attrib]; attrib is a       *)
(* function whose domain is the set of attributes the element carries.     *)
(* A document is the sequence of its elements in document order.           *)

has(elem, a) == a \in DOMAIN elem.attrib

\* elem.get(a, default)
get(elem, a, default) == IF has(elem, a) THEN elem.attrib[a] ELSE default

\* elem.set(a, v)
set(elem, a, v) == [elem EXCEPT !.attrib = (a :> v) @@ elem.attrib]

\* del elem.attrib[a]
del(elem, a) ==
    [elem EXCEPT !.attrib = [x \in (DOMAIN elem.attrib) \ {a} |-> elem.attrib[x]]]

\* the anti-pattern the fresh parse is there to avoid: the document of the previous
\* iteration is handed out again instead of a new parse of the file
load_svg_reuse(path) == IF tree = <<>> THEN fs[path] ELSE tree

\* load_svg: the parse of the file at path
load_svg(path) == fs[path]

\* find_layers: positions of the g elements marked groupmode="layer", in document order
find_layers(t) ==
    LET RECURSIVE scan(_)
        scan(i) == IF i > Len(t) THEN <<>>
                   ELSE IF t[i].tag = "g" /\ get(t[i], "groupmode", <<>>) = S_layer
                        THEN <<i>> \o scan(i + 1)
                        ELSE scan(i + 1)
    IN  scan(1)

\* g.get(label) or g.get("id") or ""
label_of(g) ==
    IF get(g, "label", <<>>) # <<>> THEN g.attrib["label"]
    ELSE IF get(g, "id", <<>>) # <<>> THEN g.attrib["id"]
    ELSE <<>>

\* the dict label -> element built by the loops at lines 80-83 and 112-115:
\* a later layer with the same label replaces the earlier one
label_map(t, layers) ==
    LET labs == {label_of(t[layers[j]]) : j \in 1..Len(layers)}
    IN  [l \in labs |->
            LET js == {j \in 1..Len(layers) : label_of(t[layers[j]]) = l}
            IN  layers[CHOOSE j \in js : \A j2 \in js : j2 <= j]]

\* set_layer_visibility(elem, visible, keep_style)
set_layer_visibility(elem, visible, keep_style) ==
    LET disp == IF visible THEN S_inline ELSE S_none
    IN  IF ~keep_style
        THEN LET style == get(elem, "style", <<>>)
                 pieces == split(style, ";")
                 parts == SelectSeq([i \in 1..Len(pieces) |-> strip(pieces[i])],
                              LAMBDA s : s # <<>> /\ ~startswith(s, S_display_colon))
                 styled == set(elem, "style",
                               join(Append(parts, S_display_colon \o disp), ";"))
             IN  IF has(styled, "display") THEN del(styled, "display") ELSE styled
        ELSE set(elem, "display", disp)

----------------------------------------------------------------------------
(* The combinations and the file names.                                    *)

\* a plausible slip: the new digit is put in front, so layer 0 is the least
\* significant digit of the enumeration
product_lsb(pool, repeat) ==
    LET RECURSIVE prod(_)
        prod(r) ==
            IF r = 0 THEN << <<>> >>
            ELSE LET prev == prod(r - 1)
                 IN  [j \in 1..(Len(prev) * Len(pool)) |->
                        <<pool[((j - 1) % Len(pool)) + 1]>>
                            \o prev[((j - 1) \div Len(pool)) + 1]]
    IN  prod(repeat)

\* itertools.product(pool, repeat=r):
\*   result = [[]]; for each pool: result = [x + [y] for x in result for y in pool]
product(pool, repeat) ==
    LET RECURSIVE prod(_)
        prod(r) ==
            IF r = 0 THEN << <<>> >>
            ELSE LET prev == prod(r - 1)
                 IN  [j \in 1..(Len(prev) * Len(pool)) |->
                        Append(prev[((j - 1) \div Len(pool)) + 1],
                               pool[((j - 1) % Len(pool)) + 1])]
    IN  prod(repeat)

\* combos = list(product([0,1], repeat=n))
combos == product(<<0, 1>>, n)

\* a plausible slip: the bitmask written as a number, without its leading zeros
bitmask_unpadded(combo) ==
    LET ones == {i \in 1..Len(combo) : combo[i] # 0}
    IN  IF ones = {} THEN str(0)
        ELSE LET first == CHOOSE i \in ones : \A j \in ones : i <= j
             IN  concat([i \in 1..(Len(combo) - first + 1) |-> str(combo[first + i - 1])])

\* bitmask = "".join(str(b) for b in combo)
bitmask(combo) == concat([i \in 1..Len(combo) |-> str(combo[i])])

\* out_name = f"{args.prefix}{bitmask}.png"
out_name(prefix, combo) == prefix \o bitmask(combo) \o S_png

----------------------------------------------------------------------------
(* The inputs of a run: source documents and command lines.                *)

Label(i) == <<"L">> \o str(i)
Id(i)    == <<"g">> \o str(i)

\* how the labelling of a document departs from "every layer has its own label and id":
\*   dup     the layer at pos carries the label of the first layer
\*   idonly  the layer at pos has no label, only an id
\*   bare    the layer at pos has neither label nor id
Defects(nl) ==
    {[kind |-> "none", pos |-> 0]}
        \cup {[kind |-> kd, pos |-> p] : kd \in {"idonly", "bare"}, p \in 1..nl}
        \cup {[kind |-> "dup", pos |-> p] : p \in 2..nl}

\* presentation the source gives its elements: 0 = none, 1 = hidden twice over
StyleProfiles == {0, 1}
S_hidden == <<" ">> \o S_display_colon \o S_none \o <<";", " ">> \o S_fill \o <<";">>

LayerElem(i, defect, profile) ==
    LET here == defect.pos = i
        keys == {"groupmode"}
                  \cup (IF here /\ defect.kind \in {"idonly", "bare"} THEN {} ELSE {"label"})
                  \cup (IF here /\ defect.kind = "bare" THEN {} ELSE {"id"})
                  \cup (IF profile = 1 THEN {"style", "display"} ELSE {})
    IN  [tag |-> "g",
         attrib |-> [a \in keys |->
            CASE a = "groupmode" -> S_layer
              [] a = "label"     -> IF here /\ defect.kind = "dup" THEN Label(1) ELSE Label(i)
              [] a = "id"        -> Id(i)
              [] a = "style"     -> S_hidden
              [] a = "display"   -> S_none]]

\* a group that is no layer (it carries a layer's label but no groupmode)
PlainGroup == [tag |-> "g", attrib |-> [a \in {"label", "id"} |->
                  IF a = "label" THEN Label(1) ELSE Id(0)]]
\* a shape
Shape == [tag |-> "rect", attrib |-> [a \in {"id", "style"} |->
                  IF a = "id" THEN Id(9) ELSE S_fill]]

\* document order: a plain group, the layers, a shape
Document(nl, defect, profile) ==
    <<PlainGroup>> \o [i \in 1..nl |-> LayerElem(i, defect, profile)] \o <<Shape>>

Documents ==
    UNION {{Document(nl, d, p) : d \in Defects(nl), p \in StyleProfiles}
              : nl \in (n - 1)..MaxLayers}

\* --layers: the first labels in order (5, 6 or 7 of them), the first six reversed,
\* and the first six with one label replaced by the first label or by an unknown one
Forward(len) == [i \in 1..len |-> Label(i)]
ExplicitLayers ==
    {Forward(len) : len \in (n - 1)..(n + 1)}
        \cup {[i \in 1..n |-> Label(n + 1 - i)]}
        \cup {[Forward(n) EXCEPT ![p] = x] : p \in 1..n, x \in {Label(1), <<"Z">>}}

Prefixes == {<<>>, <<"v", "_">>}

\* args.layers is <<>> when --layers is omitted (None)
ArgSets ==
    [input_svg : {"in.svg"}, layers : {<<>>} \cup ExplicitLayers,
     prefix : Prefixes, keep_style : BOOLEAN]

----------------------------------------------------------------------------
(* export_svg.main                                                         *)

\* len(chosen_labels) != 6 rejected with one label too few let through
count_error_lax(labels) == Len(labels) > n

\* line 88: len(chosen_labels) != 6
count_error(labels) == Len(labels) # n

\* line 90: missing = [x for x in chosen_labels if x not in by_label]
missing(labels, by_label) == SelectSeq(labels, LAMBDA x : x \notin DOMAIN by_label)

\* line 97: the labels of the first six layers, f"Layer{i}" for a layer without label and id
default_labels(t, chosen) ==
    [i \in 1..Len(chosen) |->
        IF label_of(t[chosen[i]]) # <<>> THEN label_of(t[chosen[i]])
        ELSE S_Layer \o str(i - 1)]

\* lines 118-123: set every chosen label's element as the combination says;
\* ok is FALSE when a label is missing in current_by_label (SystemExit)
RECURSIVE apply_combo(_, _, _, _, _, _)
apply_combo(t, current_by_label, labels, combo, keep_style, idx) ==
    IF idx > Len(labels) THEN [ok |-> TRUE, tree |-> t]
    ELSE IF labels[idx] \notin DOMAIN current_by_label THEN [ok |-> FALSE, tree |-> t]
    ELSE apply_combo(
            [t EXCEPT ![current_by_label[labels[idx]]] =
                set_layer_visibility(@, combo[idx] # 0, keep_style)],
            current_by_label, labels, combo, keep_style, idx + 1)

idleVis  == v_elem0 = Shape /\ v_elem = Shape /\ v_visible = FALSE
            /\ v_keep = FALSE /\ v_calls = 0
idleLoop == SWITCHS = <<>> /\ b_idx = 0 /\ l_pc = "idle" /\ num = 0 /\ shown = <<>>
idleMain == args = [input_svg |-> "in.svg", layers |-> <<>>, prefix |-> <<>>,
                    keep_style |-> FALSE]
            /\ fs = [p \in {"in.svg"} |-> <<>>] /\ dir_exists = FALSE /\ pc = "idle"
            /\ err = "" /\ base_tree = <<>> /\ chosen_labels = <<>> /\ k = 0
            /\ fresh = <<>> /\ tree = <<>> /\ visited = <<>> /\ written = <<>>

Init ==
    /\ args \in ArgSets
    /\ fs \in [{"in.svg"} -> Documents]
    /\ dir_exists = FALSE
    /\ pc = "start"
    /\ err = ""
    /\ base_tree = <<>>
    /\ chosen_labels = <<>>
    /\ k = 0
    /\ fresh = <<>>
    /\ tree = <<>>
    /\ visited = <<>>
    /\ written = <<>>
    /\ idleVis
    /\ idleLoop

\* line 72: os.makedirs(args.output_dir, exist_ok=True)
MakeDirs ==
    /\ pc = "start"
    /\ dir_exists' = TRUE
    /\ pc' = "validate"
    /\ UNCHANGED <<args, fs, err, base_tree, chosen_labels, k, fresh, tree,
                   visited, written>>
    /\ UNCHANGED <<visVars, loopVars>>

\* lines 73-97: parse the canonical source, find its layers, settle the selection
SelectLayers ==
    /\ pc = "validate"
    /\ LET bt == load_svg(args.input_svg)
           all_layers == find_layers(bt)
           by_label == label_map(bt, all_layers)
           chosen == SubSeq(all_layers, 1, IF Len(all_layers) < n THEN Len(all_layers) ELSE n)
       IN  /\ base_tree' = bt
           /\ IF Len(all_layers) < n /\ args.layers = <<>>
              THEN pc' = "error" /\ err' = "too_few" /\ UNCHANGED chosen_labels
              ELSE IF args.layers # <<>>
              THEN IF count_error(args.layers)
                   THEN pc' = "error" /\ err' = "count" /\ UNCHANGED chosen_labels
                   ELSE IF missing(args.layers, by_label) # <<>>
                   THEN pc' = "error" /\ err' = "missing" /\ UNCHANGED chosen_labels
                   ELSE pc' = "loop" /\ chosen_labels' = args.layers /\ UNCHANGED err
              ELSE pc' = "loop" /\ chosen_labels' = default_labels(bt, chosen)
                   /\ UNCHANGED err
    /\ UNCHANGED <<args, fs, dir_exists, k, fresh, tree, visited, written>>
    /\ UNCHANGED <<visVars, loopVars>>

\* lines 106-132: one iteration of the export loop
ExportCombination ==
    /\ pc = "loop"
    /\ k < Len(combos)
    /\ LET combo == combos[k + 1]
           t0 == load_svg(args.input_svg)
           layers_current == find_layers(t0)
           current_by_label == label_map(t0, layers_current)
           r == apply_combo(t0, current_by_label, chosen_labels, combo,
                            args.keep_style, 1)
       IN  /\ fresh' = t0
           /\ visited' = Append(visited, combo)
           /\ k' = k + 1
           /\ IF r.ok
              THEN /\ tree' = r.tree
                   /\ written' = Append(written, out_name(args.prefix, combo))
                   /\ UNCHANGED <<pc, err>>
              ELSE /\ pc' = "error"
                   /\ err' = "copy_missing"
                   /\ UNCHANGED <<tree, written>>
    /\ UNCHANGED <<args, fs, dir_exists, base_tree, chosen_labels>>
    /\ UNCHANGED <<visVars, loopVars>>

\* the for loop at line 106 is exhausted: main() returns
Finish ==
    /\ pc = "loop"
    /\ k = Len(combos)
    /\ pc' = "done"
    /\ UNCHANGED <<args, fs, dir_exists, err, base_tree, chosen_labels, k, fresh,
                   tree, visited, written>>
    /\ UNCHANGED <<visVars, loopVars>>

Next == MakeDirs \/ SelectLayers \/ ExportCombination \/ Finish

Spec == Init /\ [][Next]_vars

----------------------------------------------------------------------------
(* set_layer_visibility on its own: one element, called up to MaxCalls      *)
(* times.                                                                   *)

StyleFragments ==
    { S_display_colon \o S_none,
      S_display_colon \o S_inline,
      S_display \o <<" ", ":", " ">> \o S_none,
      <<" ">> \o S_display_colon \o S_none \o <<" ">>,
      S_fill,
      <<" ">>,
      <<>> }

\* inline styles of up to MaxDecls fragments separated by ";"
Styles ==
    UNION {{join(f, ";") : f \in [1..len -> StyleFragments]} : len \in 1..MaxDecls}

VisElements ==
    {[tag |-> "g", attrib |-> [a \in {"groupmode"} |-> S_layer]]}
      \cup {[tag |-> "g", attrib |-> [a \in {"groupmode", "style"} |->
                IF a = "style" THEN st ELSE S_layer]] : st \in Styles}
      \cup {[tag |-> "g", attrib |-> [a \in {"groupmode", "style", "display"} |->
                IF a = "style" THEN st ELSE IF a = "display" THEN d ELSE S_layer]]
              : st \in Styles, d \in {S_none, S_inline}}

InitVis ==
    /\ v_elem0 \in VisElements
    /\ v_elem = v_elem0
    /\ v_visible = FALSE
    /\ v_keep \in BOOLEAN
    /\ v_calls = 0
    /\ idleMain
    /\ idleLoop

\* set_layer_visibility(elem, visible, keep_style=v_keep)
CallSetLayerVisibility ==
    /\ v_calls < MaxCalls
    /\ \E visible \in BOOLEAN :
          /\ v_elem' = set_layer_visibility(v_elem, visible, v_keep)
          /\ v_visible' = visible
    /\ v_calls' = v_calls + 1
    /\ UNCHANGED <<v_elem0, v_keep>>
    /\ UNCHANGED <<mainVars, loopVars>>

NextVis == CallSetLayerVisibility

SpecVis == InitVis /\ [][NextVis]_vars

----------------------------------------------------------------------------
(* Anticythere.py: the display loop.                                       *)

S_images0 == <<"i","m","a","g","e","s","0","/">>

\* format(i, '06b'): binary digits, most significant first, zero-padded to width 6
format06b(i) ==
    LET RECURSIVE bin(_)
        bin(v) == IF v < 2 THEN str(v) ELSE bin(v \div 2) \o str(v % 2)
        digits == bin(i)
    IN  [j \in 1..(IF Len(digits) < 6 THEN 6 - Len(digits) ELSE 0) |-> "0"] \o digits

\* lines 18-22: STATIC_IMAGES[i] is loaded from "images0/" + format(i,'06b') + ".png";
\* the image is modelled by the name of the file it was loaded from
STATIC_IMAGES == [i \in 1..NumImages |-> S_images0 \o format06b(i - 1) \o S_png]

\* switch_to_string
switch_to_string(switchs) == concat([i \in 1..Len(switchs) |-> str(switchs[i])])

\* switch_to_num: sum of 2**i * switchs[i] over i in range(len(switchs))
switch_to_num(switchs) ==
    LET RECURSIVE sum(_)
        sum(i) == IF i >= Len(switchs) THEN 0
                  ELSE 2^i * switchs[i + 1] + sum(i + 1)
    IN  sum(0)

InitLoop ==
    /\ SWITCHS = <<0, 0, 0, 0, 0, 0>>
    /\ b_idx = 0
    /\ l_pc = "top"
    /\ num = 0
    /\ shown = <<>>
    /\ idleMain
    /\ idleVis

\* line 60: SWITCHS=[0,0,0,0,0,0]
ResetSwitches ==
    /\ l_pc = "top"
    /\ SWITCHS' = <<0, 0, 0, 0, 0, 0>>
    /\ b_idx' = 0
    /\ l_pc' = "poll"
    /\ UNCHANGED <<num, shown>>
    /\ UNCHANGED <<mainVars, visVars>>

\* lines 63-67: read button b_idx; a pressed button sets its switch
ReadButton ==
    /\ l_pc = "poll"
    /\ b_idx < Len(SWITCHS)
    /\ \E is_pressed \in BOOLEAN :
          SWITCHS' = IF is_pressed THEN [SWITCHS EXCEPT ![b_idx + 1] = 1] ELSE SWITCHS
    /\ b_idx' = b_idx + 1
    /\ UNCHANGED <<l_pc, num, shown>>
    /\ UNCHANGED <<mainVars, visVars>>

\* lines 69-70: num=switch_to_num(SWITCHS); display_static_image(STATIC_IMAGES[num])
Display ==
    /\ l_pc = "poll"
    /\ b_idx = Len(SWITCHS)
    /\ num' = switch_to_num(SWITCHS)
    /\ shown' = STATIC_IMAGES[switch_to_num(SWITCHS) + 1]
    /\ l_pc' = "shown"
    /\ UNCHANGED <<SWITCHS, b_idx>>
    /\ UNCHANGED <<mainVars, visVars>>

\* lines 72-74 without a QUIT event: back to the top of the while loop
NextPass ==
    /\ l_pc = "shown"
    /\ l_pc' = "top"
    /\ UNCHANGED <<SWITCHS, b_idx, num, shown>>
    /\ UNCHANGED <<mainVars, visVars>>

\* lines 72-78: a QUIT event raises KeyboardInterrupt and the program stops
Quit ==
    /\ l_pc = "shown"
    /\ l_pc' = "stopped"
    /\ UNCHANGED <<SWITCHS, b_idx, num, shown>>
    /\ UNCHANGED <<mainVars, visVars>>

NextLoop == ResetSwitches \/ ReadButton \/ Display \/ NextPass \/ Quit

SpecLoop == InitLoop /\ [][NextLoop]_vars

----------------------------------------------------------------------------
(* Properties of export_svg.main (specification Spec).                     *)

Source == fs[args.input_svg]

\* the layers of the canonical source, in document order
SourceLayers == find_layers(Source)

\* the bitstring of a combination, written independently of bitmask
BitString(c) == [i \in 1..n |-> IF c[i] = 1 THEN "1" ELSE "0"]
BitStrings == [1..n -> {"0", "1"}]

\* the 6-bit binary representation of v, most significant bit first
BinaryMSB(v) == [i \in 1..n |-> (v \div 2^(n - i)) % 2]

Names(w) == {w[i] : i \in 1..Len(w)}

\* C1: a run that completes has written exactly 2^6 = 64 files, their names are
\* exactly prefix + b + ".png" for the 64 bitstrings b, each combination wrote the
\* file named by its own bitstring, and no two writes share a name.
C1_AllFilesWritten ==
    pc = "done" =>
        /\ Len(written) = 2^n
        /\ Cardinality(Names(written)) = 2^n
        /\ Names(written) = {args.prefix \o b \o S_png : b \in BitStrings}
        /\ \A j \in 1..Len(written) :
              written[j] = args.prefix \o BitString(visited[j]) \o S_png

C1_Witness ==
    pc = "done" /\ args.prefix # <<>> /\ Len(written) = 2^n

\* position in the document of the i-th selected layer: the i-th layer in document
\* order in default mode, the layer named by the i-th explicit label otherwise
SelectedLayer(i) ==
    IF args.layers = <<>> THEN SourceLayers[i]
    ELSE label_map(Source, SourceLayers)[args.layers[i]]

\* the element is set visible / hidden the way the mode in force sets it
LastDecl(e) ==
    LET ds == split(get(e, "style", <<>>), ";") IN ds[Len(ds)]
SetVisible(e) ==
    IF args.keep_style THEN get(e, "display", <<>>) = S_inline
    ELSE LastDecl(e) = S_display_colon \o S_inline
Rendered == k > 0 /\ pc \in {"loop", "done"}

\* C2: for a source with at least 6 layers, in the document handed to the renderer
\* for combination c, the i-th selected layer is set visible if and only if
\* c[i] = 1, for every i, whatever the labels.
C2_BitControlsLayer ==
    (Rendered /\ Len(SourceLayers) >= n) =>
        \A i \in 1..n : SetVisible(tree[SelectedLayer(i)]) <=> (visited[k][i] = 1)

\* --layers was given with a number of labels other than 6, or with a label that
\* no layer of the canonical source carries
ConfigError ==
    /\ args.layers # <<>>
    /\ \/ Len(args.layers) # n
       \/ \E i \in 1..Len(args.layers) :
             \A j \in 1..Len(SourceLayers) :
                 label_of(Source[SourceLayers[j]]) # args.layers[i]

NothingExported == written = <<>> /\ visited = <<>> /\ tree = <<>> /\ k = 0

\* C3: with a configuration error the run never enters the export loop: it ends in
\* SystemExit with nothing rendered and nothing written.
C3_ConfigErrorFatal ==
    ConfigError =>
        /\ pc \in {"start", "validate", "error"}
        /\ pc = "error" => err \in {"count", "missing"}
        /\ NothingExported

C3_Witness ==
    /\ ConfigError
    /\ pc = "error"
    /\ err = "count"
    /\ Len(args.layers) = n - 1
    /\ dir_exists
    /\ NothingExported

\* C4: with fewer than 6 layers in the canonical source the run ends in an error
\* before anything is rendered or written, in default and in explicit mode.
C4_TooFewLayersFatal ==
    Len(SourceLayers) < n =>
        /\ pc \in {"start", "validate", "error"}
        /\ NothingExported

\* what applying only combination c to an unmodified copy of the source gives
OnlyThisCombo(c) ==
    apply_combo(Source, label_map(Source, SourceLayers), chosen_labels, c,
                args.keep_style, 1).tree

\* C5: every iteration starts from a fresh parse of the source, the canonical tree
\* is never changed, and the document rendered for c is the unmodified source with
\* only c's settings applied.
C5_Isolation ==
    /\ base_tree # <<>> => base_tree = Source
    /\ k > 0 => fresh = Source
    /\ Rendered => tree = OnlyThisCombo(visited[k])

C5_Witness ==
    /\ pc = "loop"
    /\ k = 2
    /\ fresh = Source
    /\ tree # Source
    /\ tree = OnlyThisCombo(combos[2])

\* C6: once start-up validation has passed, no iteration ends in the fatal exit
\* "layer missing in the copy of the document".
C6_ReresolveSucceeds ==
    err # "copy_missing"

\* C7: combos is the 64 combinations in counting order, layer 0 most significant,
\* from 000000 to 111111; the loop visits them in that order, each exactly once.
CombosCount ==
    /\ Len(combos) = 2^n
    /\ \A j \in 1..Len(combos) : combos[j] = BinaryMSB(j - 1)
C7_CountingOrder ==
    /\ CombosCount
    /\ visited = SubSeq(combos, 1, k)
    /\ \A i, j \in 1..Len(visited) : visited[i] = visited[j] => i = j
    /\ pc = "done" => {visited[j] : j \in 1..Len(visited)} = [1..n -> {0, 1}]

C7_Witness ==
    /\ pc = "done"
    /\ Len(visited) = 2^n
    /\ visited[1] = <<0, 0, 0, 0, 0, 0>>
    /\ visited[2] = <<0, 0, 0, 0, 0, 1>>
    /\ visited[2^n] = <<1, 1, 1, 1, 1, 1>>

SelectedPositions == {SelectedLayer(i) : i \in 1..n}
OtherAttributes(e1, e2) ==
    ((DOMAIN e1.attrib) \cup (DOMAIN e2.attrib)) \ {"style", "display"}
SameAttribute(e1, e2, a) ==
    /\ has(e1, a) <=> has(e2, a)
    /\ has(e1, a) => e1.attrib[a] = e2.attrib[a]

\* C9: the rendered document differs from the fresh copy only in the style and
\* display attributes of the selected layers; with keep_style their style is
\* unchanged too.
C9_Frame ==
    Rendered =>
        /\ Len(tree) = Len(fresh)
        /\ \A j \in 1..Len(tree) :
              /\ tree[j].tag = fresh[j].tag
              /\ j \notin SelectedPositions => tree[j] = fresh[j]
              /\ \A a \in OtherAttributes(tree[j], fresh[j]) :
                    SameAttribute(tree[j], fresh[j], a)
              /\ args.keep_style => SameAttribute(tree[j], fresh[j], "style")

----------------------------------------------------------------------------
(* Properties of set_layer_visibility (specification SpecVis).             *)

\* the declarations of an inline style: its non-blank pieces between ";"
Declarations(style) ==
    SelectSeq([i \in 1..Len(split(style, ";")) |-> strip(split(style, ";")[i])],
              LAMBDA d : d # <<>>)

\* the property a declaration sets: the text before its first ":", blanks aside
PropertyName(d) ==
    IF \A i \in 1..Len(d) : d[i] # ":" THEN <<>> ELSE strip(split(d, ":")[1])
IsDisplayDecl(d) == PropertyName(d) = S_display

\* C8: in canonicalizing mode, after set_layer_visibility the style holds exactly one
\* display declaration, it is the last and states the target, the other declarations
\* are kept in order, and the element has no display attribute.
C8_Canonical ==
    (v_calls > 0 /\ ~v_keep) =>
        LET before == Declarations(get(v_elem0, "style", <<>>))
            after  == Declarations(get(v_elem, "style", <<>>))
        IN  /\ Cardinality({i \in 1..Len(after) : IsDisplayDecl(after[i])}) = 1
            /\ after[Len(after)] =
                  S_display_colon \o (IF v_visible THEN S_inline ELSE S_none)
            /\ SelectSeq(after, LAMBDA d : ~IsDisplayDecl(d))
                  = SelectSeq(before, LAMBDA d : ~IsDisplayDecl(d))
            /\ ~has(v_elem, "display")

----------------------------------------------------------------------------
(* Properties of the display loop (specification SpecLoop).                *)

\* C10: the image shown for switch vector s is the one loaded from the file named
\* switch_to_string(s), the index is in 0..63, and distinct vectors have distinct
\* indices.
C10_AddressingAgrees ==
    /\ l_pc = "shown" =>
          /\ num \in 0..(NumImages - 1)
          /\ shown = S_images0 \o switch_to_string(SWITCHS) \o S_png
    /\ \A s1, s2 \in [1..n -> {0, 1}] :
          switch_to_num(s1) = switch_to_num(s2) => s1 = s2

====
